---- MODULE Spec2Model ----
(***************************************************************************)
(* Model of src/select.rs: the Select statement value, its accessors       *)
(* (select_names, select_alias), the Named helper and the Display          *)
(* implementations of Select, SelectElement and Named.                     *)
(*                                                                         *)
(* Text is modelled as a sequence of one-character strings, so that        *)
(* whitespace and punctuation of the rendered output are observable.       *)
(* Option<T> is modelled as a sequence of length 0 (None) or 1 (Some).     *)
(***************************************************************************)
EXTENDS Integers, Sequences, FiniteSets, TLC

VARIABLES sel, call, ret

vars == <<sel, call, ret>>

\* ---- bounds ----
MaxCols == 2
MaxWhere == 2

\* ---- Option ----
None == <<>>
Some(x) == <<x>>
IsSome(o) == Len(o) = 1
Unwrap(o) == o[1]

\* ---- string literals of the source ----
StrSelect == <<"S","E","L","E","C","T"," ">>
StrDistinct == <<"D","I","S","T","I","N","C","T"," ">>
StrJson == <<"J","S","O","N"," ">>
StrFrom == <<" ","F","R","O","M"," ">>
StrWhere == <<" ","W","H","E","R","E"," ">>
StrAnd == <<" ","A","N","D"," ">>
StrOrderBy == <<" ","O","R","D","E","R"," ","B","Y"," ">>
StrLimit == <<" ","L","I","M","I","T"," ">>
StrAllowFiltering == <<" ","A","L","L","O","W"," ","F","I","L","T","E","R","I","N","G">>
StrCommaSpace == <<",", " ">>
StrAs == <<" ","A","S"," ">>
StrStar == <<"*">>
StrEmpty == <<>>

\* ---- external collaborators (crate::common) ----
\* Identifier::parse(text, span): the span is not inspected.
IdentifierParse(text, span) == [id |-> text]
IdentifierDisplay(i) == i.id
FQNameDisplay(t) == t.fq
RelationElementDisplay(r) == r.rel
OrderClauseDisplay(o) == o.ord

\* Display for i32
DigitChar(d) == <<"0","1","2","3","4","5","6","7","8","9">>[d + 1]
RECURSIVE NatToText(_)
NatToText(n) == IF n < 10 THEN <<DigitChar(n)>>
                ELSE NatToText(n \div 10) \o <<DigitChar(n % 10)>>
I32Display(x) == IF x < 0 THEN <<"-">> \o NatToText(0 - x) ELSE NatToText(x)

\* itertools::Itertools::join over already rendered items
RECURSIVE Join(_, _)
Join(items, sep) ==
    IF Len(items) = 0 THEN StrEmpty
    ELSE IF Len(items) = 1 THEN items[1]
    ELSE items[1] \o sep \o Join(Tail(items), sep)

\* ---- Named ----
NamedNew(name, name_span, alias, alias_span) ==
    [name |-> IdentifierParse(name, name_span),
     alias |-> Some(IdentifierParse(alias, alias_span))]

NamedSimple(name, span) ==
    [name |-> IdentifierParse(name, span), alias |-> None]

\* variant: the base name is returned even when an alias is present
alias_or_name_NameFirst(n) == n.name

alias_or_name(n) == IF n.alias = None THEN n.name ELSE Unwrap(n.alias)

\* variant: an alias equal to the base name is dropped from the output
NamedDisplay_SuppressRedundant(n) ==
    IF n.alias = None \/ Unwrap(n.alias) = n.name THEN IdentifierDisplay(n.name)
    ELSE IdentifierDisplay(n.name) \o StrAs \o IdentifierDisplay(Unwrap(n.alias))

NamedDisplay(n) ==
    IF n.alias = None THEN IdentifierDisplay(n.name)
    ELSE IdentifierDisplay(n.name) \o StrAs \o IdentifierDisplay(Unwrap(n.alias))

\* ---- SelectElement ----
Star == [kind |-> "Star"]
Column(n) == [kind |-> "Column", named |-> n]
Function(n) == [kind |-> "Function", named |-> n]

\* variant: a Function renders its base name only
SelectElementDisplay_FunctionBare(e) ==
    IF e.kind = "Star" THEN StrStar
    ELSE IF e.kind = "Function" THEN IdentifierDisplay(e.named.name)
    ELSE NamedDisplay(e.named)

SelectElementDisplay(e) ==
    IF e.kind = "Star" THEN StrStar ELSE NamedDisplay(e.named)

\* ---- Select ----
\* variant: the result is collected in reverse order
RECURSIVE SelectNamesOf_Reversed(_)
SelectNamesOf_Reversed(cols) ==
    IF cols = <<>> THEN <<>>
    ELSE SelectNamesOf_Reversed(Tail(cols))
         \o (IF cols[1].kind = "Column" THEN <<NamedDisplay(cols[1].named)>> ELSE <<>>)

\* iter().filter_map(..).collect() of select_names over a vector of elements
RECURSIVE SelectNamesOf(_)
SelectNamesOf(cols) ==
    IF cols = <<>> THEN <<>>
    ELSE (IF cols[1].kind = "Column" THEN <<NamedDisplay(cols[1].named)>> ELSE <<>>)
         \o SelectNamesOf(Tail(cols))

select_names(s) == SelectNamesOf(s.columns)

\* variant: the alias is ignored
RECURSIVE SelectAliasOf_NameOnly(_)
SelectAliasOf_NameOnly(cols) ==
    IF cols = <<>> THEN <<>>
    ELSE (IF cols[1].kind = "Column" THEN <<cols[1].named.name>> ELSE <<>>)
         \o SelectAliasOf_NameOnly(Tail(cols))

\* variant: Function elements are matched as well as Column elements
RECURSIVE SelectAliasOf_WithFunctions(_)
SelectAliasOf_WithFunctions(cols) ==
    IF cols = <<>> THEN <<>>
    ELSE (IF cols[1].kind \in {"Column", "Function"}
          THEN <<IF IsSome(cols[1].named.alias) THEN Unwrap(cols[1].named.alias)
                 ELSE cols[1].named.name>>
          ELSE <<>>)
         \o SelectAliasOf_WithFunctions(Tail(cols))

\* iter().filter_map(..).collect() of select_alias over a vector of elements
RECURSIVE SelectAliasOf(_)
SelectAliasOf(cols) ==
    IF cols = <<>> THEN <<>>
    ELSE (IF cols[1].kind = "Column"
          THEN <<IF IsSome(cols[1].named.alias) THEN Unwrap(cols[1].named.alias)
                 ELSE cols[1].named.name>>
          ELSE <<>>)
         \o SelectAliasOf(Tail(cols))

select_alias(s) == SelectAliasOf(s.columns)

\* variant: LIMIT is written before ORDER BY
SelectDisplay_LimitBeforeOrder(s) ==
    StrSelect
    \o (IF s.distinct THEN StrDistinct ELSE StrEmpty)
    \o (IF s.json THEN StrJson ELSE StrEmpty)
    \o Join([i \in 1..Len(s.columns) |-> SelectElementDisplay(s.columns[i])], StrCommaSpace)
    \o StrFrom
    \o FQNameDisplay(s.table_name)
    \o (IF s.where_clause # <<>>
        THEN StrWhere \o Join([i \in 1..Len(s.where_clause) |-> RelationElementDisplay(s.where_clause[i])], StrAnd)
        ELSE StrEmpty)
    \o (IF IsSome(s.limit) THEN StrLimit \o I32Display(Unwrap(s.limit))
        ELSE StrEmpty)
    \o (IF IsSome(s.order) THEN StrOrderBy \o OrderClauseDisplay(Unwrap(s.order))
        ELSE StrEmpty)
    \o (IF s.filtering THEN StrAllowFiltering ELSE StrEmpty)

\* variant: the WHERE keyword is written without testing for an empty clause
SelectDisplay_WhereAlways(s) ==
    StrSelect
    \o (IF s.distinct THEN StrDistinct ELSE StrEmpty)
    \o (IF s.json THEN StrJson ELSE StrEmpty)
    \o Join([i \in 1..Len(s.columns) |-> SelectElementDisplay(s.columns[i])], StrCommaSpace)
    \o StrFrom
    \o FQNameDisplay(s.table_name)
    \o StrWhere \o Join([i \in 1..Len(s.where_clause) |-> RelationElementDisplay(s.where_clause[i])], StrAnd)
    \o (IF IsSome(s.order) THEN StrOrderBy \o OrderClauseDisplay(Unwrap(s.order))
        ELSE StrEmpty)
    \o (IF IsSome(s.limit) THEN StrLimit \o I32Display(Unwrap(s.limit))
        ELSE StrEmpty)
    \o (IF s.filtering THEN StrAllowFiltering ELSE StrEmpty)

SelectDisplay(s) ==
    StrSelect
    \o (IF s.distinct THEN StrDistinct ELSE StrEmpty)
    \o (IF s.json THEN StrJson ELSE StrEmpty)
    \o Join([i \in 1..Len(s.columns) |-> SelectElementDisplay(s.columns[i])], StrCommaSpace)
    \o StrFrom
    \o FQNameDisplay(s.table_name)
    \o (IF s.where_clause # <<>>
        THEN StrWhere \o Join([i \in 1..Len(s.where_clause) |-> RelationElementDisplay(s.where_clause[i])], StrAnd)
        ELSE StrEmpty)
    \o (IF IsSome(s.order) THEN StrOrderBy \o OrderClauseDisplay(Unwrap(s.order))
        ELSE StrEmpty)
    \o (IF IsSome(s.limit) THEN StrLimit \o I32Display(Unwrap(s.limit))
        ELSE StrEmpty)
    \o (IF s.filtering THEN StrAllowFiltering ELSE StrEmpty)

\* ---- input domains ----
SeqUpTo(S, n) == UNION {[1..k -> S] : k \in 0..n}

NameTexts == {<<"a">>, <<"b">>}
AliasTexts == {<<"b">>}
Spans == {"span"}
Nameds == {NamedSimple(n, sp) : n \in NameTexts, sp \in Spans}
          \cup {NamedNew(n, sp, a, sp) : n \in NameTexts, a \in AliasTexts, sp \in Spans}
SelectElements == {Star} \cup {Column(n) : n \in Nameds} \cup {Function(n) : n \in Nameds}
FQNames == {[fq |-> <<"t">>]}
RelationElements == {[rel |-> <<"x"," ","="," ","1">>]}
OrderClauses == {[ord |-> <<"c"," ","A","S","C">>]}
Limits == {0 - 1, 0, 12}
Options(S) == {None} \cup {Some(x) : x \in S}

Selects ==
    [distinct : BOOLEAN, json : BOOLEAN, table_name : FQNames,
     columns : SeqUpTo(SelectElements, MaxCols),
     where_clause : SeqUpTo(RelationElements, MaxWhere),
     order : Options(OrderClauses), limit : Options(Limits),
     filtering : BOOLEAN]

\* ---- state machine ----
NoCall == [op |-> "none", args |-> <<>>]

Init == /\ sel \in Selects
        /\ call = NoCall
        /\ ret = <<>>

CallSelectDisplay ==
    /\ call' = [op |-> "Select::fmt", args |-> <<>>]
    /\ ret' = SelectDisplay(sel)
    /\ UNCHANGED sel

CallSelectNames ==
    /\ call' = [op |-> "select_names", args |-> <<>>]
    /\ ret' = select_names(sel)
    /\ UNCHANGED sel

CallSelectAlias ==
    /\ call' = [op |-> "select_alias", args |-> <<>>]
    /\ ret' = select_alias(sel)
    /\ UNCHANGED sel

CallSelectElementDisplay ==
    \E i \in 1..Len(sel.columns) :
        /\ call' = [op |-> "SelectElement::fmt", args |-> <<sel.columns[i]>>]
        /\ ret' = SelectElementDisplay(sel.columns[i])
        /\ UNCHANGED sel

CallNamedDisplay ==
    \E i \in 1..Len(sel.columns) :
        /\ sel.columns[i].kind # "Star"
        /\ call' = [op |-> "Named::fmt", args |-> <<sel.columns[i].named>>]
        /\ ret' = NamedDisplay(sel.columns[i].named)
        /\ UNCHANGED sel

CallAliasOrName ==
    \E i \in 1..Len(sel.columns) :
        /\ sel.columns[i].kind # "Star"
        /\ call' = [op |-> "alias_or_name", args |-> <<sel.columns[i].named>>]
        /\ ret' = alias_or_name(sel.columns[i].named)
        /\ UNCHANGED sel

CallNamedNew ==
    \E n \in NameTexts, a \in NameTexts \cup AliasTexts, sp \in Spans :
        /\ call' = [op |-> "Named::new", args |-> <<n, a>>]
        /\ ret' = NamedNew(n, sp, a, sp)
        /\ UNCHANGED sel

CallNamedSimple ==
    \E n \in NameTexts, sp \in Spans :
        /\ call' = [op |-> "Named::simple", args |-> <<n>>]
        /\ ret' = NamedSimple(n, sp)
        /\ UNCHANGED sel

Next == \/ CallSelectDisplay
        \/ CallSelectNames
        \/ CallSelectAlias
        \/ CallSelectElementDisplay
        \/ CallNamedDisplay
        \/ CallAliasOrName
        \/ CallNamedNew
        \/ CallNamedSimple

Spec == Init /\ [][Next]_vars

\* ---- helpers used to state the properties ----
ColumnsOf(s) == SelectSeq(s.columns, LAMBDA e : e.kind = "Column")

RECURSIVE Concat(_)
Concat(parts) == IF parts = <<>> THEN <<>> ELSE parts[1] \o Concat(Tail(parts))

JoinedBy(items, sep) ==
    Concat([i \in 1..Len(items) |-> IF i = 1 THEN items[i] ELSE sep \o items[i]])

IsPrefix(p, t) == Len(p) <= Len(t) /\ SubSeq(t, 1, Len(p)) = p

NoDoubleSpace(t) == \A i \in 1..(Len(t) - 1) : ~(t[i] = " " /\ t[i + 1] = " ")
NoEdgeSpace(t) == t # <<>> /\ t[1] # " " /\ t[Len(t)] # " "
CleanText(t) == NoDoubleSpace(t) /\ NoEdgeSpace(t)

NamedText(n) ==
    IF IsSome(n.alias) THEN n.name.id \o StrAs \o n.alias[1].id ELSE n.name.id

ElementText(e) == IF e.kind = "Star" THEN StrStar ELSE NamedText(e.named)

CleanParts(s) ==
    /\ \A i \in 1..Len(s.columns) :
          s.columns[i].kind # "Star" =>
              /\ CleanText(s.columns[i].named.name.id)
              /\ IsSome(s.columns[i].named.alias) =>
                     CleanText(s.columns[i].named.alias[1].id)
    /\ CleanText(s.table_name.fq)
    /\ \A i \in 1..Len(s.where_clause) : CleanText(s.where_clause[i].rel)
    /\ IsSome(s.order) => CleanText(s.order[1].ord)

ExpectedRender(s) ==
    Concat(<<
        StrSelect,
        IF s.distinct THEN StrDistinct ELSE <<>>,
        IF s.json THEN StrJson ELSE <<>>,
        JoinedBy([i \in 1..Len(s.columns) |-> ElementText(s.columns[i])], StrCommaSpace),
        StrFrom \o s.table_name.fq,
        IF Len(s.where_clause) > 0
            THEN StrWhere \o JoinedBy([i \in 1..Len(s.where_clause) |-> s.where_clause[i].rel], StrAnd)
            ELSE <<>>,
        IF IsSome(s.order) THEN StrOrderBy \o s.order[1].ord ELSE <<>>,
        IF IsSome(s.limit) THEN StrLimit \o I32Display(s.limit[1]) ELSE <<>>,
        IF s.filtering THEN StrAllowFiltering ELSE <<>>
    >>)

ColAliasB == Column(NamedNew(<<"a">>, "span", <<"b">>, "span"))
ColA == Column(NamedSimple(<<"a">>, "span"))
ColB == Column(NamedSimple(<<"b">>, "span"))
FunB == Function(NamedSimple(<<"b">>, "span"))

\* C1: select_names() returns, for each Column element in list order, the
\* column's base name only (also when the column has an alias), and nothing
\* for Star and Function elements.
C1_NamesAreBaseNames ==
    call.op = "select_names" =>
        ret = [k \in 1..Len(ColumnsOf(sel)) |-> ColumnsOf(sel)[k].named.name.id]

\* C2: rendering a Select is exactly the concatenation, in fixed order, of
\* "SELECT ", "DISTINCT " iff distinct, "JSON " iff json, the columns joined
\* by ", ", " FROM " + table, " WHERE " + terms joined by " AND " iff the
\* where clause is non-empty, " ORDER BY " + order iff present, " LIMIT " +
\* integer iff present (zero and negative included), " ALLOW FILTERING" iff
\* filtering.
C2_RenderExact ==
    call.op = "Select::fmt" => ret = ExpectedRender(sel)

C2_Witness ==
    /\ call.op = "Select::fmt"
    /\ sel.columns = <<ColAliasB, Star>>
    /\ Len(sel.where_clause) = 2
    /\ sel.limit = Some(0 - 1)
    /\ ret = <<"S","E","L","E","C","T"," ","D","I","S","T","I","N","C","T"," ","J","S","O","N"," ","a"," ","A","S"," ","b",","," ","*"," ","F","R","O","M"," ","t"," ","W","H","E","R","E"," ","x"," ","="," ","1"," ","A","N","D"," ","x"," ","="," ","1"," ","O","R","D","E","R"," ","B","Y"," ","c"," ","A","S","C"," ","L","I","M","I","T"," ","-","1"," ","A","L","L","O","W"," ","F","I","L","T","E","R","I","N","G">>

\* C3: select_alias() returns, for each Column element in list order, the
\* alias if present and the base name otherwise, and nothing for Star and
\* Function elements.
C3_AliasEffective ==
    call.op = "select_alias" =>
        ret = [k \in 1..Len(ColumnsOf(sel)) |->
                  IF IsSome(ColumnsOf(sel)[k].named.alias)
                  THEN ColumnsOf(sel)[k].named.alias[1]
                  ELSE ColumnsOf(sel)[k].named.name]

C3_Witness ==
    /\ call.op = "select_alias"
    /\ sel.columns = <<ColAliasB, FunB>>
    /\ ret = <<[id |-> <<"b">>]>>

\* C4: select_names() and select_alias() return as many entries as there are
\* Column elements, the k-th entry deriving from the k-th Column element, with
\* no reordering and no deduplication.
C4_LengthAndOrder ==
    call.op \in {"select_names", "select_alias"} =>
        /\ Len(ret) = Cardinality({i \in 1..Len(sel.columns) : sel.columns[i].kind = "Column"})
        /\ \A k \in 1..Len(ret) :
              IF call.op = "select_names"
              THEN IsPrefix(ColumnsOf(sel)[k].named.name.id, ret[k])
              ELSE ret[k] \in {ColumnsOf(sel)[k].named.name}
                              \cup {ColumnsOf(sel)[k].named.alias[j] :
                                      j \in 1..Len(ColumnsOf(sel)[k].named.alias)}

C4_Witness ==
    /\ call.op = "select_names"
    /\ sel.columns = <<ColB, ColB>>
    /\ ret = <<<<"b">>, <<"b">>>>

\* C5: a Named renders as "<name> AS <alias>" when an alias is present and as
\* "<name>" when absent; an alias equal to the base name is not suppressed.
C5_NamedRender ==
    call.op = "Named::fmt" =>
        ret = IF IsSome(call.args[1].alias)
              THEN call.args[1].name.id \o <<" ", "A", "S", " ">> \o call.args[1].alias[1].id
              ELSE call.args[1].name.id

C5_Witness ==
    /\ call.op = "Named::fmt"
    /\ call.args[1] = NamedNew(<<"b">>, "span", <<"b">>, "span")
    /\ ret = <<"b", " ", "A", "S", " ", "b">>

\* C6: alias_or_name returns the alias when present and the base name
\* otherwise; Named::simple yields no alias, Named::new always yields one.
C6_EffectiveName ==
    /\ call.op = "alias_or_name" =>
          ret = IF Len(call.args[1].alias) = 1 THEN call.args[1].alias[1]
                ELSE call.args[1].name
    /\ call.op = "Named::simple" =>
          ret.alias = None /\ ret.name = IdentifierParse(call.args[1], "span")
    /\ call.op = "Named::new" =>
          /\ ret.alias = Some(IdentifierParse(call.args[2], "span"))
          /\ ret.name = IdentifierParse(call.args[1], "span")

C6_Witness ==
    /\ call.op = "alias_or_name"
    /\ call.args[1] = NamedNew(<<"a">>, "span", <<"b">>, "span")
    /\ ret = [id |-> <<"b">>]

\* C7: a SelectElement renders as "*" for Star, and Column(n) and Function(n)
\* both render exactly as the Named n renders.
C7_ElementRender ==
    call.op = "SelectElement::fmt" =>
        ret = IF call.args[1].kind = "Star" THEN <<"*">>
              ELSE NamedText(call.args[1].named)

C7_Witness ==
    /\ call.op = "SelectElement::fmt"
    /\ call.args[1] = Function(NamedNew(<<"a">>, "span", <<"b">>, "span"))
    /\ ret = <<"a", " ", "A", "S", " ", "b">>

\* C9 (as stated): for every Select, the empty columns list included, whose
\* rendered parts are clean, the rendered text has no two consecutive spaces
\* and does not end with a space.
C9_Original ==
    (call.op = "Select::fmt" /\ CleanParts(sel)) =>
        NoDoubleSpace(ret) /\ ret[Len(ret)] # " "

\* C9 (amended): the same for every Select whose columns list is non-empty.
C9_NoDoubleSpace ==
    (call.op = "Select::fmt" /\ CleanParts(sel) /\ sel.columns # <<>>) =>
        NoDoubleSpace(ret) /\ ret[Len(ret)] # " "

C9_Witness ==
    /\ call.op = "Select::fmt"
    /\ CleanParts(sel)
    /\ sel.columns = <<Star>>
    /\ ~sel.distinct /\ ~sel.json /\ ~sel.filtering
    /\ sel.where_clause = <<>> /\ sel.order = None /\ sel.limit = None
    /\ ret = <<"S","E","L","E","C","T"," ","*"," ","F","R","O","M"," ","t">>

\* C10: the k-th entry of select_names() is the text of the k-th entry of
\* select_alias() whenever the k-th Column element has no alias.
C10_AgreeOnUnaliased ==
    call.op = "select_names" =>
        \A k \in 1..Len(ColumnsOf(sel)) :
            ColumnsOf(sel)[k].named.alias = None =>
                /\ k <= Len(ret)
                /\ k <= Len(select_alias(sel))
                /\ ret[k] = IdentifierDisplay(select_alias(sel)[k])

C10_Witness ==
    /\ call.op = "select_names"
    /\ sel.columns = <<ColAliasB, ColA>>
    /\ ret[2] = <<"a">>
    /\ select_alias(sel) = <<[id |-> <<"b">>], [id |-> <<"a">>]>>
====
